---------------------------- MODULE Spec2Model ----------------------------
(***************************************************************************)
(* Connect-Four match server: the game controller (joinGame, makeMove,     *)
(* disconnect, rejoin), GameService (startNewGame, handleMove), the win    *)
(* detector and the bot, modelled as a state machine over the in-memory    *)
(* registry `games`, the waiting queue, the pending timers and the pending *)
(* asynchronous tails of handleMove.                                       *)
(***************************************************************************)
EXTENDS Integers, Sequences, FiniteSets, TLC

(***************************************************************************)
(* Program constants.                                                      *)
(***************************************************************************)
ROWS == 6
COLS == 7

(***************************************************************************)
(* Bounds of the model.                                                    *)
(***************************************************************************)
\* connections ever opened (socket ids are allocated 1, 2, ...)
MaxSockets == 3
\* games ever started (game ids are allocated 1, 2, ...)
MaxGames == 1
\* accepted moves per run
MaxMoves == 2
\* plies played on top of an opening in the board-only specification
MaxPlies == 3

Rows == 0..(ROWS - 1)
Columns == 0..(COLS - 1)

(***************************************************************************)
(* JavaScript values.  null and undefined are kept apart; both are falsy.  *)
(***************************************************************************)
Null == "null"
Undefined == "undefined"
Falsy(v) == v \in {Null, Undefined}
Truthy(v) == ~Falsy(v)

\* partial maps (JavaScript objects used as dictionaries)
Put(f, k, v) == [x \in DOMAIN f \cup {k} |-> IF x = k THEN v ELSE f[x]]
Del(f, k) == [x \in DOMAIN f \ {k} |-> f[x]]
Get(f, k) == IF k \in DOMAIN f THEN f[k] ELSE Undefined
EmptyMap == [x \in {} |-> Undefined]

(***************************************************************************)
(* Board: createEmptyBoard, dropDisc, isBoardFull (gameService.js).        *)
(***************************************************************************)
createEmptyBoard == [r \in Rows |-> [c \in Columns |-> Null]]

\* mutant of DropRow: the scan runs from the top row downward
DropRowFromTop(board, column, row) ==
  LET free == {r \in Rows : Falsy(Get(board[r], column))}
  IN IF free = {} THEN -1 ELSE CHOOSE r \in free : \A q \in free : r <= q

\* mutant of DropRow: a full column gives row 0 instead of -1
DropRowOverwrite(board, column, row) ==
  LET free == {r \in Rows : Falsy(Get(board[r], column))}
  IN IF free = {} THEN 0 ELSE CHOOSE r \in free : \A q \in free : r >= q

\* the loop of dropDisc: rows from the bottom (ROWS-1) upward, the first
\* falsy cell of the column, or -1.  A row has no element at an index
\* outside 0..COLS-1: reading it gives undefined, which is falsy.
RECURSIVE DropRow(_, _, _)
DropRow(board, column, row) ==
  IF row < 0 THEN -1
  ELSE IF Falsy(Get(board[row], column)) THEN row
  ELSE DropRow(board, column, row - 1)

\* board[row][column] = symbol: an index the row does not have is added
dropDisc(board, column, symbol) ==
  LET row == DropRow(board, column, ROWS - 1) IN
  [row |-> row,
   board |-> IF row = -1 THEN board
             ELSE IF column \in DOMAIN board[row]
                  THEN [board EXCEPT ![row][column] = symbol]
                  ELSE [board EXCEPT ![row] = Put(@, column, symbol)]]

\* mutant of isBoardFull: a board is never full
isBoardFullNever(board) == FALSE

\* every(...) visits the elements a row has
isBoardFull(board) ==
  \A r \in Rows : \A c \in DOMAIN board[r] : Truthy(board[r][c])

(***************************************************************************)
(* checkWinner (utils/checkWinner.js).                                     *)
(***************************************************************************)
\* mutant of directions: the down-left diagonal is left out
directionsNoDownLeft == << <<0, 1>>, <<1, 0>>, <<1, 1>> >>

directions == << <<0, 1>>, <<1, 0>>, <<1, 1>>, <<1, -1>> >>

NoWin == [isWinner |-> FALSE, winningPositions |-> <<>>]

\* the while loop: extend from (nr, nc) along (dr, dc) while in bounds and
\* holding `symbol`; return as soon as the count reaches 4.
RECURSIVE Walk(_, _, _, _, _, _, _, _)
\* mutant of Walk: the whole run of the symbol is followed and returned
WalkWholeRun(board, symbol, nr, nc, dr, dc, count, positions) ==
  IF nr >= 0 /\ nc >= 0 /\ nr < ROWS /\ nc < COLS /\ board[nr][nc] = symbol
  THEN Walk(board, symbol, nr + dr, nc + dc, dr, dc, count + 1,
            Append(positions, <<nr, nc>>))
  ELSE IF count >= 4
       THEN [isWinner |-> TRUE, winningPositions |-> positions]
       ELSE NoWin

\* mutant of Walk: each further cell is put in front of the list
WalkPrepend(board, symbol, nr, nc, dr, dc, count, positions) ==
  IF /\ nr \in Rows
     /\ nc \in Columns
     /\ board[nr][nc] = symbol
  THEN IF count + 1 = 4
       THEN [isWinner |-> TRUE, winningPositions |-> <<<<nr, nc>>>> \o positions]
       ELSE Walk(board, symbol, nr + dr, nc + dc, dr, dc, count + 1,
                 <<<<nr, nc>>>> \o positions)
  ELSE NoWin

Walk(board, symbol, nr, nc, dr, dc, count, positions) ==
  IF nr >= 0 /\ nc >= 0 /\ nr < ROWS /\ nc < COLS /\ board[nr][nc] = symbol
  THEN LET cnt == count + 1
           pos == Append(positions, <<nr, nc>>)
       IN IF cnt = 4
          THEN [isWinner |-> TRUE, winningPositions |-> pos]
          ELSE Walk(board, symbol, nr + dr, nc + dc, dr, dc, cnt, pos)
  ELSE NoWin

\* the three nested for loops, flattened: i enumerates (r, c, direction) in
\* the order the code visits them; ScanAt is one pass of the innermost body.
ScanSteps == 0..(ROWS * COLS * Len(directions) - 1)

ScanAt(board, symbol, i) ==
  LET r == i \div (COLS * Len(directions))
      c == (i \div Len(directions)) % COLS
      d == directions[(i % Len(directions)) + 1]
  IN IF board[r][c] # symbol THEN NoWin
     ELSE Walk(board, symbol, r + d[1], c + d[2], d[1], d[2], 1, << <<r, c>> >>)

\* the loops return at the first pass that reaches a count of 4
\* mutant of Scan: no start cell is tried
ScanNothing(board, symbol) == NoWin

Scan(board, symbol) ==
  LET hits == {i \in ScanSteps : ScanAt(board, symbol, i).isWinner}
  IN IF hits = {} THEN NoWin
     ELSE ScanAt(board, symbol, CHOOSE i \in hits : \A j \in hits : i <= j)

checkWinner(board, symbol) == Scan(board, symbol)


(***************************************************************************)
(* botLogic (bot/botLogic.js).                                             *)
(***************************************************************************)
BOT_SYMBOL == "O"
PLAYER_SYMBOL == "X"

\* a JavaScript object used as a condition: every object is truthy,
\* whatever its isWinner field holds.
ObjectIsTruthy(obj) == TRUE

\* getValidColumns: the columns whose top cell is strictly null, ascending.
RECURSIVE ValidFrom(_, _)
\* mutant of ValidFrom: the top cell is not looked at
ValidFromAll(board, c) ==
  IF c >= COLS THEN <<>> ELSE <<c>> \o ValidFrom(board, c + 1)

ValidFrom(board, c) ==
  IF c >= COLS THEN <<>>
  ELSE IF board[0][c] = Null THEN <<c>> \o ValidFrom(board, c + 1)
  ELSE ValidFrom(board, c + 1)

getValidColumns(board) == ValidFrom(board, 0)

\* simulateMove: a copy of the board with the disc dropped (no change when
\* the column is full).
simulateMove(board, col, symbol) == dropDisc(board, col, symbol).board

\* the first element of `cols` (from index i) whose simulated move makes the
\* `if (checkWinner(...))` condition true, or -1.
RECURSIVE FirstWinning(_, _, _, _)
FirstWinning(board, cols, symbol, i) ==
  IF i > Len(cols) THEN -1
  ELSE IF ObjectIsTruthy(checkWinner(simulateMove(board, cols[i], symbol), symbol))
       THEN cols[i]
       ELSE FirstWinning(board, cols, symbol, i + 1)

preferredOrder == <<3, 2, 4, 1, 5, 0, 6>>

InSeq(x, seq) == \E i \in 1..Len(seq) : seq[i] = x

RECURSIVE FirstPreferred(_, _)
FirstPreferred(valid, i) ==
  IF i > Len(preferredOrder) THEN -1
  ELSE IF InSeq(preferredOrder[i], valid) THEN preferredOrder[i]
  ELSE FirstPreferred(valid, i + 1)

botLogic(board) ==
  LET validColumns == getValidColumns(board)
      win == FirstWinning(board, validColumns, BOT_SYMBOL, 1)
      block == FirstWinning(board, validColumns, PLAYER_SYMBOL, 1)
      pref == FirstPreferred(validColumns, 1)
  IN IF win # -1 THEN win
     ELSE IF block # -1 THEN block
     ELSE IF InSeq(3, validColumns) THEN 3
     ELSE IF pref # -1 THEN pref
     ELSE 0      \* validColumns[0] || 0 with validColumns empty

(***************************************************************************)
(* State.                                                                  *)
(***************************************************************************)
VARIABLES
  kafkaConnected,  \* producer.js: set once by connectProducer at startup
  sock,            \* socket objects: id -> [username, connected, isBot]
  waitingPlayers,  \* gameController: queue of socket ids
  games,           \* gameController: the registry, game id -> game object
  detached,        \* game objects deleted from the registry that a suspended
                   \* handleMove still holds
  nextGame,        \* number of games started so far (ids are 1, 2, ...)
  timers,          \* pending setTimeout callbacks
  awaiting,        \* suspended tails of handleMove (after gameOver)
  dbQueries,       \* parameters of the INSERTs handed to pool.query
  kafkaSent,       \* messages handed to producer.send
  emits,           \* events emitted by the handler that ran last
  gameOvers,       \* history: every gameOver broadcast so far
  accepted,        \* history: game id -> number of moves that placed a disc
  moves,           \* history: accepted moves of the run (bounded by MaxMoves)
  last,            \* history: the handler that ran last and its outcome
  gamesTable,      \* database: the rows of table games, by their winner
  leaderboardCache,\* routes/leaderboard.js: the cached rows, or null
  lastCacheTime,   \* routes/leaderboard.js: Date.now() of the cached query
  now,             \* the clock Date.now() reads, in ms
  response,        \* the response of the last GET /leaderboard
  connectionLimiter, \* socketRateLimiter.js: client IP -> connections, timestamp
  eventLimiter,    \* socketRateLimiter.js: socket id -> event tracker
  limiterEmits,    \* events emitted by the onAny listener that ran last
  handshake,       \* the connection middleware's last run: client IP, next(err)
  admitted         \* history: client IP -> times of its admitted connections

vars == <<kafkaConnected, sock, waitingPlayers, games, detached, nextGame,
          timers, awaiting, dbQueries, kafkaSent, emits, gameOvers, accepted,
          moves, last, gamesTable, leaderboardCache, lastCacheTime, now,
          response, connectionLimiter, eventLimiter, limiterEmits, handshake,
          admitted>>

\* the variables of the socket rate limiter, of the socket controller and of
\* the leaderboard route (each of the last two with what it leaves alone)
limitVars == <<connectionLimiter, eventLimiter, limiterEmits, handshake,
               admitted>>
gameVars == <<kafkaConnected, sock, waitingPlayers, games, detached, nextGame,
              timers, awaiting, dbQueries, kafkaSent, emits, gameOvers,
              accepted, moves, limitVars>>
routeVars == <<gamesTable, leaderboardCache, lastCacheTime, now, response,
               limitVars>>

Usernames == {"alice", "bob"}
HumanIds == 1..MaxSockets
\* createBotSocket: "BOT_" + random suffix; one fresh id per bot game
BotId(g) == 100 + g
GameIds == 1..MaxGames
NoGame == 0
NoSocket == 0

Connected == {s \in DOMAIN sock : sock[s].connected}
Bots == {s \in DOMAIN sock : sock[s].isBot}

\* mutant of usernameOf: the bot has no name to be declared with
usernameOfHuman(s) == IF sock[s].isBot THEN Null ELSE sock[s].username

usernameOf(s) == sock[s].username

RemoveAt(seq, i) == SubSeq(seq, 1, i - 1) \o SubSeq(seq, i + 1, Len(seq))

\* mutant of SeqFilter: nothing is taken out of the list
SeqFilterKeep(seq, s) == seq

SeqFilter(seq, s) == SelectSeq(seq, LAMBDA x : x # s)

\* the game object a game id denotes for code that holds a reference to it
GameObj(g) == IF g \in DOMAIN games THEN games[g] ELSE detached[g]

Event(ev, to, data) == [ev |-> ev, to |-> to, data |-> data]
Room(g) == [room |-> g]
ToSocket(s) == [socket |-> s]

Last(op, s, g, res) == [op |-> op, sock |-> s, game |-> g, res |-> res]

Timer(kind, g, s, other, col) ==
  [kind |-> kind, game |-> g, sock |-> s, other |-> other, col |-> col]

(***************************************************************************)
(* routes/leaderboard.js and the table it reads.  The query reads only the *)
(* winner column, so the table is kept as the number of rows per winner    *)
(* (null for a draw) and the count of a group is kept as a number.       *)
(***************************************************************************)
LIMIT == 10
CACHE_TTL == 60 * 1000

\* the usernames recorded as winners
WinnerNames == <<"alice", "bob", "carol", "dave", "erin", "frank">>
Winners == {WinnerNames[k] : k \in 1..Len(WinnerNames)}
EmptyTable == [w \in Winners \cup {Null} |-> 0]

RECURSIVE RowCount(_, _)
RowCount(table, S) ==
  IF S = {} THEN 0
  ELSE LET w == CHOOSE x \in S : TRUE
       IN table[w] + RowCount(table, S \ {w})

\* WHERE winner IS NOT NULL GROUP BY winner
Groups(table) == {w \in Winners : table[w] > 0}

\* ORDER BY wins DESC: every order of the groups with no group before one
\* of more wins (the order of groups with equal wins is not specified)
RECURSIVE Ordered(_, _)
Ordered(table, S) ==
  IF S = {} THEN {<<>>}
  ELSE LET top == {w \in S : \A v \in S : table[w] >= table[v]}
       IN UNION {{<<[winner |-> w, wins |-> table[w]]>> \o r :
                    r \in Ordered(table, S \ {w})} : w \in top}

\* LIMIT n
Limit(rows, n) == SubSeq(rows, 1, IF Len(rows) < n THEN Len(rows) ELSE n)

\* the results pool.query may give for the SELECT of the route
QueryResults(table) == {Limit(rows, LIMIT) : rows \in Ordered(table, Groups(table))}

\* let leaderboardCache = null; a cached result is an array, which is truthy
\* also when it is empty
NullCache == [null |-> TRUE]
Cached(rows) == [rows |-> rows]
NoResponse == [status |-> 0]

InitRoute ==
  /\ gamesTable = EmptyTable
  /\ leaderboardCache = NullCache
  /\ lastCacheTime = 0
  /\ now = 0
  /\ response = NoResponse

\* no client and no socket is tracked by the rate limiter (its setInterval
\* callback has removed the entries of the idle ones)
NoError == [none |-> TRUE]
NoHandshake == [clientIp |-> Null, err |-> NoError]
InitLimiter ==
  /\ connectionLimiter = EmptyMap
  /\ eventLimiter = EmptyMap
  /\ limiterEmits = <<>>
  /\ handshake = NoHandshake
  /\ admitted = EmptyMap

Init ==
  /\ kafkaConnected \in BOOLEAN
  /\ sock = EmptyMap
  /\ waitingPlayers = <<>>
  /\ games = EmptyMap
  /\ detached = EmptyMap
  /\ nextGame = 1
  /\ timers = {}
  /\ awaiting = <<>>
  /\ dbQueries = <<>>
  /\ kafkaSent = <<>>
  /\ emits = <<>>
  /\ gameOvers = <<>>
  /\ accepted = EmptyMap
  /\ moves = 0
  /\ last = Last("init", NoSocket, NoGame, "none")
  /\ InitRoute
  /\ InitLimiter

(***************************************************************************)
(* GameService.startNewGame(p1, p2, io, games, isBotGame).                 *)
(***************************************************************************)
NewGame(g, p1, p2, isBotGame, sk) ==
  [id |-> g,
   board |-> createEmptyBoard,
   players |-> <<p1, p2>>,
   \* { [p1.id]: "X", [p2.id]: "O" }: the second key wins when the ids agree
   symbols |-> Put(Put(EmptyMap, p1, "X"), p2, "O"),
   usernames |-> Put(Put(EmptyMap, sk[p1].username, p1), sk[p2].username, p2),
   turn |-> p1,
   isBotGame |-> isBotGame,
   disconnectTimers |-> EmptyMap]

StartedEvents(g, p1, p2, sk) ==
  << Event("gameStarted", Room(g),
           [gameId |-> g, board |-> createEmptyBoard,
            players |-> <<sk[p1].username, sk[p2].username>>,
            turn |-> sk[p1].username]),
     Event("opponentFound", ToSocket(p1), [opponent |-> sk[p2].username]),
     Event("opponentFound", ToSocket(p2), [opponent |-> sk[p1].username]) >>

\* sk is the socket table as the caller leaves it (username set, bot added)
startNewGame(p1, p2, isBotGame, sk) ==
  /\ games' = Put(games, nextGame, NewGame(nextGame, p1, p2, isBotGame, sk))
  /\ accepted' = Put(accepted, nextGame, 0)
  /\ nextGame' = nextGame + 1
  /\ emits' = StartedEvents(nextGame, p1, p2, sk)

(***************************************************************************)
(* gameController: io.on("connection"), socket.on("joinGame").             *)
(***************************************************************************)
Connect ==
  LET s == Cardinality(DOMAIN sock \cap HumanIds) + 1 IN
  /\ s <= MaxSockets
  /\ sock' = Put(sock, s, [username |-> Undefined, connected |-> TRUE,
                           isBot |-> FALSE])
  /\ emits' = <<>>
  /\ last' = Last("connection", s, NoGame, "none")
  /\ UNCHANGED <<kafkaConnected, waitingPlayers, games, detached, nextGame,
                 timers, awaiting, dbQueries, kafkaSent, gameOvers, accepted,
                 moves>>
  /\ UNCHANGED routeVars

\* a 10 s fallback timer is told apart from the others the same socket has
\* pending by its rank among them
JoinTimer(s) ==
  Timer("join", NoGame, s, NoSocket,
        Cardinality({t \in timers : t.kind = "join" /\ t.sock = s}))

JoinGame(s, username) ==
  LET sk == [sock EXCEPT ![s].username = username] IN
  /\ s \in Connected
  /\ sock' = sk
  /\ IF InSeq(s, waitingPlayers)
     THEN \* already in the queue
          /\ emits' = <<>>
          /\ last' = Last("joinGame", s, NoGame, "alreadyInQueue")
          /\ UNCHANGED <<waitingPlayers, games, nextGame, timers, accepted>>
     ELSE LET queue == Append(waitingPlayers, s) IN
          IF Len(queue) >= 2
          THEN /\ waitingPlayers' = SubSeq(queue, 3, Len(queue))
               /\ startNewGame(queue[1], queue[2], FALSE, sk)
               /\ last' = Last("joinGame", s, nextGame, "paired")
               /\ UNCHANGED timers
          ELSE /\ waitingPlayers' = queue
               /\ timers' = timers \cup {JoinTimer(s)}
               /\ emits' = <<>>
               /\ last' = Last("joinGame", s, NoGame, "waiting")
               /\ UNCHANGED <<games, nextGame, accepted>>
  /\ UNCHANGED <<kafkaConnected, detached, awaiting, dbQueries, kafkaSent,
                 gameOvers, moves>>
  /\ UNCHANGED routeVars

\* the setTimeout callback of joinGame (10 s): bot fallback
JoinTimeout(t) ==
  /\ t \in timers
  /\ t.kind = "join"
  /\ timers' = timers \ {t}
  /\ IF InSeq(t.sock, waitingPlayers)
     THEN LET bot == BotId(nextGame)
              sk == Put(sock, bot, [username |-> "BotMaster",
                                    connected |-> FALSE, isBot |-> TRUE])
          IN /\ waitingPlayers' = SeqFilter(waitingPlayers, t.sock)
             /\ sock' = sk
             /\ startNewGame(t.sock, bot, TRUE, sk)
             /\ last' = Last("joinTimeout", t.sock, nextGame, "botGame")
     ELSE /\ emits' = <<>>
          /\ last' = Last("joinTimeout", t.sock, NoGame, "none")
          /\ UNCHANGED <<sock, waitingPlayers, games, nextGame, accepted>>
  /\ UNCHANGED <<kafkaConnected, detached, awaiting, dbQueries, kafkaSent,
                 gameOvers, moves>>
  /\ UNCHANGED routeVars

(***************************************************************************)
(* GameService.handleMove(socket, gameId, column, games, io).              *)
(***************************************************************************)
\* game.players.find(p => p.id !== id): the first player with another id,
\* NoSocket when there is none (find returns undefined)
\* mutant of OtherPlayer: the player with the given id
OtherPlayerSame(game, id) ==
  IF game.players[1] = id THEN game.players[1]
  ELSE IF game.players[2] = id THEN game.players[2]
  ELSE NoSocket

OtherPlayer(game, id) ==
  IF game.players[1] # id THEN game.players[1]
  ELSE IF game.players[2] # id THEN game.players[2]
  ELSE NoSocket

\* saveGameToDB(game, winner, isDraw): the parameters given to pool.query
InsertParams(game, winner, isDraw) ==
  [id |-> game.id,
   player1 |-> usernameOf(game.players[1]),
   player2 |-> usernameOf(game.players[2]),
   winner |-> winner,
   is_draw |-> isDraw]

\* sendGameEvent("gameOver", ...): the message given to producer.send
\* (duration and timestamp are left out)
KafkaGameOver(game, winner) ==
  [key |-> "gameOver",
   winner |-> winner,
   players |-> <<usernameOf(game.players[1]), usernameOf(game.players[2])>>]

GameOverRecord(g, winner, draw, reason, positions) ==
  [game |-> g, winner |-> winner, draw |-> draw, reason |-> reason,
   winningPositions |-> positions]

\* mutant of Outcome: a full board is looked for before a line of four
OutcomeDrawFirst(game, s, column) ==
  IF game.turn # s THEN "ignored"
  ELSE LET symbol == Get(game.symbols, s)
           drop == dropDisc(game.board, column, symbol)
       IN IF drop.row = -1 THEN "columnFull"
          ELSE IF isBoardFull(drop.board) THEN "draw"
          ELSE IF checkWinner(drop.board, symbol).isWinner THEN "win"
          ELSE IF OtherPlayer(game, s) = NoSocket THEN "threw"
          ELSE "next"

\* mutant of Outcome: the turn is not checked
OutcomeAnyTurn(game, s, column) ==
  LET symbol == Get(game.symbols, s)
      drop == dropDisc(game.board, column, symbol)
  IN IF drop.row = -1 THEN "columnFull"
     ELSE IF checkWinner(drop.board, symbol).isWinner THEN "win"
     ELSE IF isBoardFull(drop.board) THEN "draw"
     ELSE IF OtherPlayer(game, s) = NoSocket THEN "threw"
     ELSE "next"

\* what handleMove does with a move of socket s on a game object it found,
\* from its conditions and returns
Outcome(game, s, column) ==
  IF game.turn # s THEN "ignored"
  ELSE LET symbol == Get(game.symbols, s)
           drop == dropDisc(game.board, column, symbol)
       IN IF drop.row = -1 THEN "columnFull"
          ELSE IF checkWinner(drop.board, symbol).isWinner THEN "win"
          ELSE IF isBoardFull(drop.board) THEN "draw"
          ELSE IF OtherPlayer(game, s) = NoSocket THEN "threw"
          ELSE "next"

\* mutant of MoveOutcome: a game with a pending 30 s timer takes no move
MoveOutcomeGrace(s, g, column) ==
  IF g \notin DOMAIN games THEN "ignored"
  ELSE IF \E t \in timers : t.kind = "disconnect" /\ t.game = g THEN "ignored"
  ELSE Outcome(games[g], s, column)

MoveOutcome(s, g, column) ==
  IF g \notin DOMAIN games THEN "ignored" ELSE Outcome(games[g], s, column)

\* mutant of AfterMove: the disc is placed and the turn stays
AfterMoveKeepsTurn(game, s, column) ==
  [game EXCEPT !.board = dropDisc(game.board, column, Get(game.symbols, s)).board]

\* the game object after a move that neither ends the game nor throws:
\* the disc is placed and the turn goes to the other player
AfterMove(game, s, column) ==
  [game EXCEPT !.board = dropDisc(game.board, column, Get(game.symbols, s)).board,
               !.turn = OtherPlayer(game, s)]

\* the part of a terminal handleMove that runs before it first yields to
\* other events: with no Kafka connection `await sendGameEvent` resumes at
\* once and the INSERT is issued in the same turn of the event loop.
TerminalTail(g, s, game, dbWinner, isDraw) ==
  IF kafkaConnected
  THEN /\ kafkaSent' = Append(kafkaSent, KafkaGameOver(game, usernameOf(s)))
       /\ awaiting' = Append(awaiting, [game |-> g, sock |-> s,
                                        isDraw |-> isDraw, stage |-> "kafka"])
       /\ UNCHANGED dbQueries
  ELSE /\ dbQueries' = Append(dbQueries, InsertParams(game, dbWinner, isDraw))
       /\ awaiting' = Append(awaiting, [game |-> g, sock |-> s,
                                        isDraw |-> isDraw, stage |-> "db"])
       /\ UNCHANGED kafkaSent

\* tm: the pending timers as the caller leaves them
handleMove(s, g, column, tm) ==
  LET outcome == MoveOutcome(s, g, column) IN
  IF outcome \in {"ignored", "columnFull"}
  THEN /\ emits' = <<>>
       /\ timers' = tm
       /\ UNCHANGED <<games, awaiting, dbQueries, kafkaSent, gameOvers,
                      accepted, moves>>
  ELSE
    LET game == games[g]
        symbol == Get(game.symbols, s)
        drop == dropDisc(game.board, column, symbol)
        placed == [game EXCEPT !.board = drop.board]
        moveMade == Event("moveMade", Room(g),
                          [column |-> column, row |-> drop.row,
                           symbol |-> symbol, board |-> drop.board])
        winResult == checkWinner(drop.board, symbol)
    IN
    /\ moves' = moves + 1
    /\ accepted' = [accepted EXCEPT ![g] = @ + 1]
    /\ CASE outcome = "win" ->
              /\ games' = [games EXCEPT ![g] = placed]
              /\ emits' = << moveMade,
                             Event("gameOver", Room(g),
                                   [winner |-> usernameOf(s),
                                    board |-> drop.board,
                                    winningPositions |->
                                        winResult.winningPositions]) >>
              /\ gameOvers' = Append(gameOvers,
                    GameOverRecord(g, usernameOf(s), FALSE, Undefined,
                                   winResult.winningPositions))
              /\ TerminalTail(g, s, placed, usernameOf(s), FALSE)
              /\ timers' = tm
         [] outcome = "draw" ->
              /\ games' = [games EXCEPT ![g] = placed]
              /\ emits' = << moveMade,
                             Event("gameOver", Room(g),
                                   [winner |-> Null, draw |-> TRUE,
                                    board |-> drop.board]) >>
              /\ gameOvers' = Append(gameOvers,
                    GameOverRecord(g, Null, TRUE, Undefined, <<>>))
              /\ TerminalTail(g, s, placed, Null, TRUE)
              /\ timers' = tm
         [] outcome = "threw" ->
              \* players.find(...) is undefined: reading .id throws after the
              \* disc is placed and moveMade is sent; the turn is not changed
              /\ games' = [games EXCEPT ![g] = placed]
              /\ emits' = << moveMade >>
              /\ timers' = tm
              /\ UNCHANGED <<awaiting, dbQueries, kafkaSent, gameOvers>>
         [] outcome = "next" ->
              LET turn == OtherPlayer(game, s) IN
              /\ games' = [games EXCEPT ![g] = AfterMove(game, s, column)]
              /\ emits' = << moveMade >>
              /\ timers' = IF game.isBotGame /\ sock[turn].isBot
                           THEN tm \cup {Timer("bot", g, turn, NoSocket,
                                               botLogic(drop.board))}
                           ELSE tm
              /\ UNCHANGED <<awaiting, dbQueries, kafkaSent, gameOvers>>

\* socket.on("makeMove", ({ gameId, column }) => ...)
MakeMove(s, g, column) ==
  /\ s \in Connected
  /\ handleMove(s, g, column, timers)
  /\ last' = Last("makeMove", s, g, MoveOutcome(s, g, column))
  /\ UNCHANGED <<kafkaConnected, sock, waitingPlayers, detached, nextGame>>
  /\ UNCHANGED routeVars

\* the setTimeout callback of handleMove (300 ms): the bot's move
BotMove(t) ==
  /\ t \in timers
  /\ t.kind = "bot"
  /\ handleMove(t.sock, t.game, t.col, timers \ {t})
  /\ last' = Last("botMove", t.sock, t.game,
                  MoveOutcome(t.sock, t.game, t.col))
  /\ UNCHANGED <<kafkaConnected, sock, waitingPlayers, detached, nextGame>>
  /\ UNCHANGED routeVars

\* handleMove resumed after `await sendGameEvent(...)`: saveGameToDB is
\* called and hands the INSERT to pool.query
ResumeAfterKafka(i) ==
  /\ i \in 1..Len(awaiting)
  /\ awaiting[i].stage = "kafka"
  /\ LET a == awaiting[i]
         winner == IF a.isDraw THEN Null ELSE usernameOf(a.sock)
     IN /\ dbQueries' = Append(dbQueries,
                               InsertParams(GameObj(a.game), winner, a.isDraw))
        /\ awaiting' = [awaiting EXCEPT ![i].stage = "db"]
        /\ last' = Last("resumeAfterKafka", a.sock, a.game, "none")
  /\ emits' = <<>>
  /\ UNCHANGED <<kafkaConnected, sock, waitingPlayers, games, detached,
                 nextGame, timers, kafkaSent, gameOvers, accepted, moves>>
  /\ UNCHANGED routeVars

\* a game object stays reachable while a suspended handleMove holds it
Held(aw) == {aw[i].game : i \in 1..Len(aw)}

\* handleMove resumed after `await saveGameToDB(...)` (the query succeeded
\* or its error was caught and logged): delete games[gameId]
ResumeAfterSave(i) ==
  /\ i \in 1..Len(awaiting)
  /\ awaiting[i].stage = "db"
  /\ LET a == awaiting[i]
         rest == RemoveAt(awaiting, i)
         obj == GameObj(a.game)
     IN /\ awaiting' = rest
        /\ games' = Del(games, a.game)
        /\ detached' = IF a.game \in Held(rest)
                       THEN Put(detached, a.game, obj)
                       ELSE Del(detached, a.game)
        /\ last' = Last("resumeAfterSave", a.sock, a.game, "none")
  /\ emits' = <<>>
  /\ UNCHANGED <<kafkaConnected, sock, waitingPlayers, nextGame, timers,
                 dbQueries, kafkaSent, gameOvers, accepted, moves>>
  /\ UNCHANGED routeVars

(***************************************************************************)
(* gameController: socket.on("disconnect"), its 30 s timer, and            *)
(* socket.on("rejoin").                                                    *)
(***************************************************************************)
\* the games of the registry in which the disconnect handler starts a timer
StartsTimer(s, g) ==
  /\ Truthy(Get(games[g].symbols, s))
  /\ OtherPlayer(games[g], s) # NoSocket

\* a forfeiture timer is identified by the game and the socket that left
TimerId(g, s) == [game |-> g, sock |-> s]

\* the indices 1..n in increasing order, kept when Keep holds
RECURSIVE SeqOfSet(_)
SeqOfSet(S) ==
  IF S = {} THEN <<>>
  ELSE LET m == CHOOSE x \in S : \A y \in S : x <= y
       IN <<m>> \o SeqOfSet(S \ {m})

Disconnect(s) ==
  LET hit == {g \in DOMAIN games : StartsTimer(s, g)}
      order == SeqOfSet(hit)
  IN
  /\ s \in Connected
  /\ sock' = [sock EXCEPT ![s].connected = FALSE]
  /\ waitingPlayers' = SeqFilter(waitingPlayers, s)
  /\ games' = [g \in DOMAIN games |->
                 IF g \in hit
                 THEN [games[g] EXCEPT !.disconnectTimers =
                          Put(@, usernameOf(s), TimerId(g, s))]
                 ELSE games[g]]
  /\ timers' = timers \cup
                 {Timer("disconnect", g, s, OtherPlayer(games[g], s), -1) :
                    g \in hit}
  /\ emits' = [i \in 1..Len(order) |->
                 Event("playerDisconnected", Room(order[i]),
                       [username |-> usernameOf(s)])]
  /\ last' = Last("disconnect", s, NoGame,
                  IF hit = {} THEN "none" ELSE "timerStarted")
  /\ UNCHANGED <<kafkaConnected, detached, nextGame, awaiting, dbQueries,
                 kafkaSent, gameOvers, accepted, moves>>
  /\ UNCHANGED routeVars

\* mutant of DisconnectTimeout: the game is deleted and nothing is sent
DisconnectTimeoutSilent(t) ==
  /\ t \in timers
  /\ t.kind = "disconnect"
  /\ timers' = timers \ {t}
  /\ emits' = <<>>
  /\ games' = Del(games, t.game)
  /\ detached' = IF t.game \in DOMAIN games /\ t.game \in Held(awaiting)
                 THEN Put(detached, t.game, games[t.game])
                 ELSE detached
  /\ last' = Last("disconnectTimeout", t.sock, t.game,
                  IF t.game \in DOMAIN games THEN "evicted" ELSE "noGame")
  /\ UNCHANGED <<kafkaConnected, sock, waitingPlayers, nextGame, awaiting,
                 dbQueries, kafkaSent, gameOvers, accepted, moves>>
  /\ UNCHANGED routeVars

\* the setTimeout callback of the disconnect handler (30 s)
DisconnectTimeout(t) ==
  /\ t \in timers
  /\ t.kind = "disconnect"
  /\ timers' = timers \ {t}
  /\ emits' = << Event("gameOver", Room(t.game),
                       [winner |-> usernameOf(t.other),
                        reason |-> "disconnect timeout"]) >>
  /\ gameOvers' = Append(gameOvers,
        GameOverRecord(t.game, usernameOf(t.other), FALSE,
                       "disconnect timeout", <<>>))
  /\ games' = Del(games, t.game)
  /\ detached' = IF t.game \in DOMAIN games /\ t.game \in Held(awaiting)
                 THEN Put(detached, t.game, games[t.game])
                 ELSE detached
  /\ last' = Last("disconnectTimeout", t.sock, t.game,
                  IF t.game \in DOMAIN games THEN "evicted" ELSE "noGame")
  /\ UNCHANGED <<kafkaConnected, sock, waitingPlayers, nextGame, awaiting,
                 dbQueries, kafkaSent, accepted, moves>>
  /\ UNCHANGED routeVars

\* the first game of the registry (insertion order) that knows the username
RejoinGame(username) ==
  LET known == {g \in DOMAIN games : username \in DOMAIN games[g].usernames}
  IN IF known = {} THEN NoGame
     ELSE CHOOSE g \in known : \A h \in known : g <= h

\* mutant of RejoinFailedEvents: the failure is not reported
RejoinFailedNothing(s) == <<>>

\* the events of a rejoin that found no game
RejoinFailedEvents(s) ==
  << Event("rejoinFailed", ToSocket(s),
           [message |-> "Game not found or timeout expired."]) >>

Rejoin(s, username) ==
  LET g == RejoinGame(username) IN
  /\ s \in Connected
  /\ IF g = NoGame
     THEN /\ emits' = RejoinFailedEvents(s)
          /\ last' = Last("rejoin", s, NoGame, "failed")
          /\ UNCHANGED <<sock, games, timers>>
     ELSE LET game == games[g]
              oldSocketId == game.usernames[username]
              \* symbols[socket.id] = symbols[oldSocketId]; delete symbols[oldSocketId]
              symbols == Del(Put(game.symbols, s, Get(game.symbols, oldSocketId)),
                             oldSocketId)
              players == [i \in 1..2 |->
                            IF game.players[i] = oldSocketId THEN s
                            ELSE game.players[i]]
              rebound == [game EXCEPT !.symbols = symbols,
                                      !.usernames = Put(@, username, s),
                                      !.players = players]
              sk == [sock EXCEPT ![s].username = username]
              opponent == OtherPlayer(rebound, s)
          IN /\ timers' = IF username \in DOMAIN game.disconnectTimers
                          THEN {t \in timers :
                                  ~(t.kind = "disconnect" /\
                                    TimerId(t.game, t.sock) =
                                      game.disconnectTimers[username])}
                          ELSE timers
             /\ games' = [games EXCEPT ![g] = rebound]
             /\ sock' = sk
             /\ IF opponent = NoSocket
                THEN \* players.find(...) is undefined: reading .username
                     \* throws before anything is emitted
                     /\ emits' = <<>>
                     /\ last' = Last("rejoin", s, g, "threw")
                ELSE /\ emits' =
                          << Event("rejoinSuccess", ToSocket(s),
                                   [gameId |-> g, board |-> game.board,
                                    turn |-> (game.turn = s),
                                    opponent |-> sk[opponent].username]),
                             Event("playerRejoined", Room(g),
                                   [username |-> username]) >>
                     /\ last' = Last("rejoin", s, g, "success")
  /\ UNCHANGED <<kafkaConnected, waitingPlayers, detached, nextGame, awaiting,
                 dbQueries, kafkaSent, gameOvers, accepted, moves>>
  /\ UNCHANGED routeVars

(***************************************************************************)
(* Specification.                                                          *)
(***************************************************************************)
\* the bound on the run: a request that would place a disc is taken only
\* while fewer than n discs were placed
WithinBudget(n, s, g, column) ==
  MoveOutcome(s, g, column) \in {"ignored", "columnFull"} \/ moves < n

\* the columns move requests carry
MoveColumns == {0, 1, 3}

Next ==
  \/ Connect
  \/ \E s \in DOMAIN sock, u \in Usernames :
        nextGame <= MaxGames /\ JoinGame(s, u)
  \/ \E t \in timers : nextGame <= MaxGames /\ JoinTimeout(t)
  \/ \E s \in DOMAIN sock, g \in GameIds, c \in MoveColumns :
        WithinBudget(MaxMoves, s, g, c) /\ MakeMove(s, g, c)
  \/ \E t \in timers :
        t.kind = "bot" /\ WithinBudget(MaxMoves, t.sock, t.game, t.col)
        /\ BotMove(t)
  \/ \E i \in 1..Len(awaiting) : ResumeAfterKafka(i)
  \/ \E i \in 1..Len(awaiting) : ResumeAfterSave(i)
  \/ \E s \in DOMAIN sock : Disconnect(s)
  \/ \E t \in timers : DisconnectTimeout(t)
  \/ \E s \in DOMAIN sock, u \in Usernames : Rejoin(s, u)

Spec == Init /\ [][Next]_vars

(***************************************************************************)
(* Specification of one game in play.  The initial states are states the   *)
(* controller reaches from Init: two connections joined as alice and bob   *)
(* and were paired (or alice waited 10 s and got the bot), every joinGame  *)
(* timer has fired, and the moves of an opening were made and accepted     *)
(* with no other event in between.  No further joinGame is sent.           *)
(***************************************************************************)
Repeat(c, n) == [i \in 1..n |-> c]

\* a complete game of 42 moves that no one wins
DrawGame ==
  Repeat(0, 6) \o Repeat(1, 6) \o <<4>> \o Repeat(2, 6) \o Repeat(3, 6) \o
  Repeat(6, 6) \o Repeat(4, 5) \o Repeat(5, 6)

\* the columns played, first player first; in a bot game every second one
\* is the bot's
Openings ==
  << [bot |-> FALSE, cols |-> <<>>],
     [bot |-> FALSE, cols |-> <<0, 1, 0, 1, 0, 1>>],
     [bot |-> FALSE, cols |-> <<4, 0, 1, 2, 3, 3, 3, 1, 4, 2, 5, 2>>],
     [bot |-> FALSE, cols |-> SubSeq(DrawGame, 1, Len(DrawGame) - 2)],
     [bot |-> TRUE, cols |-> <<>>],
     [bot |-> TRUE, cols |-> <<1, 0, 2, 0, 3, 0>>] >>

PlaySockets(bot) ==
  IF bot
  THEN Put(Put(EmptyMap, 1, [username |-> "alice", connected |-> TRUE,
                             isBot |-> FALSE]),
           BotId(1), [username |-> "BotMaster", connected |-> FALSE,
                      isBot |-> TRUE])
  ELSE Put(Put(EmptyMap, 1, [username |-> "alice", connected |-> TRUE,
                             isBot |-> FALSE]),
           2, [username |-> "bob", connected |-> TRUE, isBot |-> FALSE])

PlayStart(bot) ==
  NewGame(1, 1, IF bot THEN BotId(1) ELSE 2, bot, PlaySockets(bot))

\* the game object after the first n moves of the opening
RECURSIVE Replay(_, _, _)
Replay(game, cols, n) ==
  IF n = 0 THEN game
  ELSE LET before == Replay(game, cols, n - 1)
       IN AfterMove(before, before.turn, cols[n])

\* every move of the opening is accepted by handleMove and leaves the game
\* running, and every move of the bot is the one botLogic picked when the
\* move was scheduled
OpeningPlayable(o) ==
  \A n \in 1..Len(o.cols) :
    LET before == Replay(PlayStart(o.bot), o.cols, n - 1) IN
    /\ o.cols[n] \in Columns
    /\ Outcome(before, before.turn, o.cols[n]) = "next"
    /\ (o.bot /\ before.turn = BotId(1)) => o.cols[n] = botLogic(before.board)

\* the state after the moves of opening o
InitGame(o) ==
    LET game == Replay(PlayStart(o.bot), o.cols, Len(o.cols))
    IN
    /\ OpeningPlayable(o)
    /\ kafkaConnected \in BOOLEAN
    /\ sock = PlaySockets(o.bot)
    /\ waitingPlayers = <<>>
    /\ games = Put(EmptyMap, 1, game)
    /\ detached = EmptyMap
    /\ nextGame = 2
    /\ timers = IF o.bot /\ game.turn = BotId(1)
                THEN {Timer("bot", 1, BotId(1), NoSocket,
                            botLogic(game.board))}
                ELSE {}
    /\ awaiting = <<>>
    /\ dbQueries = <<>>
    /\ kafkaSent = <<>>
    /\ emits = <<>>
    /\ gameOvers = <<>>
    /\ accepted = Put(EmptyMap, 1, Len(o.cols))
    /\ moves = 0
    /\ last = Last("init", NoSocket, NoGame, "none")

InitAfter(o) == InitGame(o) /\ InitRoute /\ InitLimiter

InitPlay == \E k \in 1..Len(Openings) : InitAfter(Openings[k])

NextPlay ==
  \/ \E s \in DOMAIN sock, g \in GameIds, c \in Columns :
        WithinBudget(MaxMoves, s, g, c) /\ MakeMove(s, g, c)
  \/ \E t \in timers :
        t.kind = "bot" /\ WithinBudget(MaxMoves, t.sock, t.game, t.col)
        /\ BotMove(t)
  \/ \E i \in 1..Len(awaiting) : ResumeAfterKafka(i)
  \/ \E i \in 1..Len(awaiting) : ResumeAfterSave(i)
  \/ \E s \in DOMAIN sock : Disconnect(s)
  \/ \E t \in timers : DisconnectTimeout(t)

SpecPlay == InitPlay /\ [][NextPlay]_vars

\* a pending write completes or fails, and a timer that was set fires
FairSpecPlay ==
  /\ SpecPlay
  /\ WF_vars(\E i \in 1..Len(awaiting) : ResumeAfterKafka(i))
  /\ WF_vars(\E i \in 1..Len(awaiting) : ResumeAfterSave(i))
  /\ WF_vars(\E t \in timers : DisconnectTimeout(t))

(***************************************************************************)
(* Specification of the boards: two players only move, from the openings   *)
(* of the human games, with no Kafka connection.                           *)
(***************************************************************************)
InitBoard == InitPlay /\ ~kafkaConnected /\ BotId(1) \notin DOMAIN sock

NextBoard ==
  \/ \E s \in DOMAIN sock, c \in Columns :
        WithinBudget(MaxPlies, s, 1, c) /\ MakeMove(s, 1, c)
  \/ \E i \in 1..Len(awaiting) : ResumeAfterSave(i)

SpecBoard == InitBoard /\ [][NextBoard]_vars

(***************************************************************************)
(* Specification of reconnection: a game between alice and bob after one   *)
(* of two openings, with no Kafka connection; players leave, connections   *)
(* are opened and each new connection sends rejoin requests, for the two    *)
(* usernames and for one that never played, until one succeeds.            *)
(***************************************************************************)
RejoinNames == Usernames \cup {"carol"}

\* discs placed in a run of the reconnection specification
MaxRejoinMoves == 1

InitRejoin ==
  /\ InitPlay
  /\ ~kafkaConnected
  /\ Bots = {}
  /\ accepted[1] <= 6

NextRejoin ==
  \/ Connect
  \/ \E s \in DOMAIN sock, u \in RejoinNames :
        sock[s].username = Undefined /\ Rejoin(s, u)
  \/ \E s \in DOMAIN sock : Disconnect(s)
  \/ \E t \in timers : DisconnectTimeout(t)
  \/ \E s \in DOMAIN sock, c \in MoveColumns :
        WithinBudget(MaxRejoinMoves, s, 1, c) /\ MakeMove(s, 1, c)
  \/ \E i \in 1..Len(awaiting) : ResumeAfterSave(i)

SpecRejoin == InitRejoin /\ [][NextRejoin]_vars

\* a timer that was set fires unless it is cleared, and a pending write
\* completes or fails
FairSpecRejoin ==
  /\ SpecRejoin
  /\ WF_vars(\E i \in 1..Len(awaiting) : ResumeAfterSave(i))
  /\ WF_vars(\E t \in timers : DisconnectTimeout(t))

(***************************************************************************)
(* Specification of a game against the bot in play.  Timers fire in the    *)
(* order of their deadlines: a 300 ms bot timer is set by a move of the    *)
(* human, who is then connected, so it is due before any 30 s timer of a   *)
(* disconnect.  The bound on the run counts the human's requests only; the *)
(* bot's reply to each is always played.                                   *)
(***************************************************************************)
InitBot == InitPlay /\ Bots # {}

NextBot ==
  \/ \E s \in DOMAIN sock \ Bots, c \in Columns :
        WithinBudget(MaxMoves, s, 1, c) /\ MakeMove(s, 1, c)
  \/ \E t \in timers : t.kind = "bot" /\ BotMove(t)
  \/ \E i \in 1..Len(awaiting) : ResumeAfterKafka(i)
  \/ \E i \in 1..Len(awaiting) : ResumeAfterSave(i)
  \/ \E s \in DOMAIN sock : Disconnect(s)
  \/ \E t \in timers :
        {b \in timers : b.kind = "bot"} = {} /\ DisconnectTimeout(t)

SpecBot == InitBot /\ [][NextBot]_vars

\* a pending bot timer leaves the set of pending timers: it fires
BotTimerFires == \E t \in timers : t.kind = "bot" /\ timers' = timers \ {t}

\* a timer that was set fires
FairSpecBot ==
  /\ SpecBot
  /\ WF_timers(BotTimerFires)

(***************************************************************************)
(* Properties.                                                             *)
(***************************************************************************)
Discs == {"X", "O"}
Occupied(board) == {p \in Rows \X Columns : board[p[1]][p[2]] \in Discs}
Gravity(board) ==
  \A p \in Occupied(board) :
    \A q \in (p[1] + 1)..(ROWS - 1) : <<q, p[2]>> \in Occupied(board)
ColumnIsFull(board, c) == \A r \in Rows : <<r, c>> \in Occupied(board)
MoveOps == {"makeMove", "botMove"}

\* C1: in every game of the registry the board holds exactly as many discs
\* as moves were accepted and every disc rests on the bottom or on a disc;
\* no step clears or changes an occupied cell.
C1_BoardGrowsByGravity ==
  /\ [](\A g \in DOMAIN games :
          /\ Cardinality(Occupied(games[g].board)) = accepted[g]
          /\ Gravity(games[g].board))
  /\ [][\A g \in DOMAIN games \cap DOMAIN games' :
          \A p \in Occupied(games[g].board) :
            games'[g].board[p[1]][p[2]] = games[g].board[p[1]][p[2]]]_vars

C1_Witness ==
  /\ last.op = "makeMove" /\ last.res = "next" /\ moves >= 2
  /\ last.game \in DOMAIN games
  /\ \E c \in Columns : \E r \in 0..(ROWS - 2) :
        <<r, c>> \in Occupied(games[last.game].board)

\* C2: a move request from a socket that is not game.turn leaves the game
\* object as it is and emits nothing.
C2_OutOfTurnMoveIgnored ==
  [][(/\ last'.op \in MoveOps
      /\ last'.game \in DOMAIN games
      /\ games[last'.game].turn # last'.sock)
     => (games' = games /\ emits' = <<>> /\ gameOvers' = gameOvers)]_vars

C2_Witness ==
  /\ last.op = "makeMove" /\ last.res = "ignored"
  /\ last.game \in DOMAIN games
  /\ games[last.game].turn # last.sock
  /\ \E i \in 1..2 : games[last.game].players[i] = last.sock
  /\ moves >= 1

\* C3: a move request of the socket whose turn it is into a column with six
\* discs leaves the game object (board, turn) as it is and emits nothing.
C3_FullColumnMoveIgnored ==
  [][\A s \in DOMAIN sock : \A g \in DOMAIN games : \A c \in Columns :
       (/\ last'.op = "makeMove" /\ last'.sock = s /\ last'.game = g
        /\ games[g].turn = s
        /\ ColumnIsFull(games[g].board, c)
        /\ MakeMove(s, g, c))
       => (games' = games /\ emits' = <<>> /\ gameOvers' = gameOvers)]_vars

C3_Witness ==
  /\ last.op = "makeMove" /\ last.res = "columnFull"
  /\ last.game \in DOMAIN games
  /\ games[last.game].turn = last.sock
  /\ \E c \in Columns : ColumnIsFull(games[last.game].board, c)
  /\ \E c \in Columns : ~ColumnIsFull(games[last.game].board, c)

\* four cells holding S that are contiguous along a row, a column or a
\* diagonal
Lines == {<<0, 1>>, <<1, 0>>, <<1, 1>>, <<1, -1>>}
LineFrom(board, S, r, c, d) ==
  \A k \in 0..3 :
    /\ r + k * d[1] \in Rows
    /\ c + k * d[2] \in Columns
    /\ board[r + k * d[1]][c + k * d[2]] = S
FourInLine(board, S) ==
  \E r \in Rows : \E c \in Columns : \E d \in Lines : LineFrom(board, S, r, c, d)

\* C4: on every board of the registry and for each symbol, checkWinner
\* reports a winner with four positions exactly when the board holds four
\* contiguous cells of the symbol, and no winner with no positions otherwise.
C4_CheckWinnerIffFourInLine ==
  \A g \in DOMAIN games : \A S \in Discs :
    LET w == checkWinner(games[g].board, S) IN
    /\ w.isWinner <=> FourInLine(games[g].board, S)
    /\ w.isWinner => Len(w.winningPositions) = 4
    /\ ~w.isWinner => w.winningPositions = <<>>

C4_Witness ==
  \E g \in DOMAIN games :
    /\ \E r \in Rows : \E c \in Columns :
          LineFrom(games[g].board, "O", r, c, <<1, -1>>)
    /\ checkWinner(games[g].board, "O").isWinner
    /\ ~checkWinner(games[g].board, "X").isWinner

\* the events of one handler run
EventsOf(es, ev) == {es[i] : i \in {j \in 1..Len(es) : es[j].ev = ev}}
CellsOf(positions) == {positions[i] : i \in 1..Len(positions)}
IsLineOf(board, S, positions) ==
  /\ Len(positions) = 4
  /\ \E r \in Rows : \E c \in Columns : \E d \in Lines :
        /\ LineFrom(board, S, r, c, d)
        /\ CellsOf(positions) = {<<r + k * d[1], c + k * d[2]>> : k \in 0..3}

\* a step of handleMove that put a disc of symbol S into game g
Placed(g, S) ==
  /\ last'.op \in MoveOps
  /\ last'.game = g
  /\ g \in DOMAIN games /\ g \in DOMAIN games'
  /\ \E p \in Rows \X Columns :
        /\ games[g].board[p[1]][p[2]] \notin Discs
        /\ games'[g].board[p[1]][p[2]] = S
BotTimers(tm) == {t \in tm : t.kind = "bot"}
WonGames == {gameOvers[i].game :
               i \in {j \in 1..Len(gameOvers) :
                        gameOvers[j].winningPositions # <<>>}}
DrawnGames == {gameOvers[i].game :
                 i \in {j \in 1..Len(gameOvers) : gameOvers[j].draw}}

ColumnZeroStack == {<<5, 0>>, <<4, 0>>, <<3, 0>>, <<2, 0>>}
XCells(board) == {p \in Rows \X Columns : board[p[1]][p[2]] = "X"}
StacksColumnZero(g) ==
  /\ Placed(g, "X")
  /\ last'.sock = games[g].players[1]
  /\ XCells(games'[g].board) = ColumnZeroStack
WinLineTopDown == << <<2, 0>>, <<3, 0>>, <<4, 0>>, <<5, 0>> >>
WinLineBottomUp == << <<5, 0>>, <<4, 0>>, <<3, 0>>, <<2, 0>> >>
GameOverWith(g, line) ==
  \E e \in EventsOf(emits', "gameOver") :
    /\ e.to = Room(g)
    /\ e.data.winner = usernameOf(games[g].players[1])
    /\ "winningPositions" \in DOMAIN e.data
    /\ e.data.winningPositions = line

\* C6 (as the code has it): when the first player completes the stack of
\* rows 5,4,3,2 in column 0, all its discs being there, the gameOver names
\* it winner and lists the line in scan order, from row 2 down to row 5:
\* [[2,0],[3,0],[4,0],[5,0]].
C6_ColumnZeroWinLine ==
  [][\A g \in GameIds :
       StacksColumnZero(g) => GameOverWith(g, WinLineTopDown)]_vars

C6_Witness ==
  /\ last.op = "makeMove" /\ last.res = "win"
  /\ last.game \in DOMAIN games
  /\ last.sock = games[last.game].players[1]
  /\ XCells(games[last.game].board) = ColumnZeroStack
  /\ \E e \in EventsOf(emits, "gameOver") :
        e.data.winner = "alice" /\ e.data.winningPositions = WinLineTopDown

\* C6 (as the claim has it): the line is listed from the bottom row upward,
\* [[5,0],[4,0],[3,0],[2,0]].
C6_AsClaimed ==
  [][\A g \in GameIds :
       StacksColumnZero(g) => GameOverWith(g, WinLineBottomUp)]_vars

\* C7: the move that fills the 42nd cell with no four in a line for either
\* symbol is followed in the same handler run by a gameOver with draw = true
\* and winner = null; a game that was drawn is eventually out of the
\* registry with an INSERT of winner = null, is_draw = true handed to the
\* pool.
DrawSaved(g) ==
  \E i \in 1..Len(dbQueries) :
    /\ dbQueries[i].id = g
    /\ dbQueries[i].winner = Null
    /\ dbQueries[i].is_draw = TRUE
C8_TerminalGameTakesNoMove ==
  [][(/\ last'.op \in MoveOps
      /\ last'.game \in WonGames \cup DrawnGames)
     => /\ \A g \in DOMAIN games \cap DOMAIN games' :
              games'[g].board = games[g].board
        /\ EventsOf(emits', "moveMade") = {}
        /\ EventsOf(emits', "gameOver") = {}]_vars

\* a game in its grace period: a 30 s timer of the disconnect handler is
\* pending for it
InGrace(g) == \E t \in timers : t.kind = "disconnect" /\ t.game = g
GraceMove(s, g, c) ==
  /\ last'.op = "makeMove" /\ last'.sock = s /\ last'.game = g
  /\ InGrace(g)
  /\ \E i \in 1..2 : games[g].players[i] = s
  /\ MakeMove(s, g, c)

Humans == {s \in DOMAIN sock : ~sock[s].isBot}
HumanGame == DOMAIN sock = Humans /\ Cardinality(Humans) = 2

\* C10: in a game between two humans, when the 30 s timer of a player that
\* left fires, a gameOver with the other player's username as winner and
\* reason "disconnect timeout" goes to the game's room and the game is not
\* in the registry; a game with such a timer pending is eventually out of
\* the registry.
C10_DisconnectTimeoutForfeit ==
  /\ [][(last'.op = "disconnectTimeout" /\ HumanGame)
        => /\ \E e \in EventsOf(emits', "gameOver") :
                 /\ e.to = Room(last'.game)
                 /\ \E o \in Humans \ {last'.sock} :
                       e.data.winner = usernameOf(o)
                 /\ e.data.winner # usernameOf(last'.sock)
                 /\ "reason" \in DOMAIN e.data
                 /\ e.data.reason = "disconnect timeout"
           /\ last'.game \notin DOMAIN games']_vars
  /\ \A g \in GameIds : (HumanGame /\ InGrace(g)) ~> (g \notin DOMAIN games)

C10_Witness ==
  /\ last.op = "disconnectTimeout" /\ last.res = "evicted"
  /\ HumanGame
  /\ last.sock \notin Connected
  /\ last.game \notin DOMAIN games
  /\ \E e \in EventsOf(emits, "gameOver") :
        e.data.winner # usernameOf(last.sock)
        /\ e.data.reason = "disconnect timeout"

\* a game against the bot: the bot's socket object is one of the two players
BotGame == Bots # {}
ForfeitEvents(es) ==
  {e \in EventsOf(es, "gameOver") : "reason" \in DOMAIN e.data}

\* C11 (as the code has it): in a bot game, when the 30 s timer of the human
\* that left fires, the gameOver sent to the game's room names the bot's
\* username, "BotMaster", as winner with reason "disconnect timeout", and
\* the game is not in the registry.
C11_BotWinsForfeit ==
  [][(last'.op = "disconnectTimeout" /\ BotGame /\ last'.sock \notin Bots)
     => /\ \E e \in ForfeitEvents(emits') :
              /\ e.to = Room(last'.game)
              /\ e.data.winner = "BotMaster"
              /\ e.data.reason = "disconnect timeout"
        /\ \A e \in ForfeitEvents(emits') : e.data.winner = "BotMaster"
        /\ last'.game \notin DOMAIN games']_vars

C11_Witness ==
  /\ last.op = "disconnectTimeout" /\ last.res = "evicted"
  /\ BotGame
  /\ last.sock \notin Bots /\ last.sock \notin Connected
  /\ \E e \in ForfeitEvents(emits) : e.data.winner = "BotMaster"

\* C11 (as the claim has it): the gameOver of a forfeiture in a bot game
\* names no winner.
C11_AsClaimed ==
  [][(last'.op = "disconnectTimeout" /\ BotGame /\ last'.sock \notin Bots)
     => \A e \in EventsOf(emits', "gameOver") : e.data.winner = Null]_vars

\* a rejoin request of socket s for username u, handled in this step
RejoinStep(s, u) ==
  /\ last'.op = "rejoin" /\ last'.sock = s
  /\ Rejoin(s, u)
\* the game and the socket a username is bound to
GameOfName(u) == {g \in DOMAIN games : u \in DOMAIN games[g].usernames}
\* the seat of u left and its 30 s timer is pending
SeatInGrace(g, u) ==
  /\ games[g].usernames[u] \notin Connected
  /\ \E t \in timers :
        t.kind = "disconnect" /\ t.game = g /\ t.sock = games[g].usernames[u]
\* the seats (1 or 2) whose socket id is game.turn
SeatsToMove(game) == {i \in 1..2 : game.players[i] = game.turn}
Terminal(g) == g \in WonGames \cup DrawnGames

\* C12: a rejoin by a new connection for a username whose seat is in its
\* grace period clears the seat's timer, leaves the game in the registry,
\* leaves the board as it is, and the seat to move is the seat that was to
\* move.
C12_RejoinRestoresGame ==
  [][\A s \in DOMAIN sock : \A u \in Usernames : \A g \in GameOfName(u) :
       (RejoinStep(s, u) /\ SeatInGrace(g, u) /\ s # games[g].usernames[u])
       => /\ ~\E t \in timers' :
                t.kind = "disconnect" /\ t.game = g
                /\ t.sock = games[g].usernames[u]
          /\ g \in DOMAIN games'
          /\ games'[g].board = games[g].board
          /\ SeatsToMove(games'[g]) = SeatsToMove(games[g])]_vars

\* C13: in every game of the registry that is not terminal, game.turn is
\* the socket id of exactly one of the two players.
C13_OneSeatToMove ==
  \A g \in DOMAIN games :
    ~Terminal(g) => Cardinality(SeatsToMove(games[g])) = 1

\* C14: the rejoinSuccess sent to a rejoining player carries the board, the
\* other player's username, and turn = true exactly when the seat it takes
\* is the seat to move.
C14_RejoinSnapshot ==
  [][\A s \in DOMAIN sock : \A u \in Usernames : \A g \in GameOfName(u) :
       (RejoinStep(s, u) /\ SeatInGrace(g, u) /\ s # games[g].usernames[u])
       => \E e \in EventsOf(emits', "rejoinSuccess") :
             /\ e.to = ToSocket(s)
             /\ e.data.board = games[g].board
             /\ \E i \in 1..2 :
                   /\ games[g].players[i] # games[g].usernames[u]
                   /\ e.data.opponent = sock[games[g].players[i]].username
             /\ e.data.turn = (games[g].turn = games[g].usernames[u])]_vars

C16_RejoinNeedsGrace ==
  [][\A s \in DOMAIN sock : \A u \in Usernames : \A g \in GameOfName(u) :
       (RejoinStep(s, u) /\ games[g].usernames[u] \in Connected)
       => /\ EventsOf(emits', "rejoinFailed") # {}
          /\ games' = games]_vars

\* a step of handleMove for a request of the human of a bot game that placed
\* a disc and left the game running
HumanMoved ==
  /\ BotGame
  /\ last'.op = "makeMove" /\ last'.res = "next"
  /\ last'.sock \notin Bots
OCount(board) == Cardinality({p \in Rows \X Columns : board[p[1]][p[2]] = "O"})

\* C17: in a bot game a move of the human that leaves the game running
\* sets exactly one bot timer, none being pending before; when a bot timer
\* fires the bot's disc is placed, no bot timer is left, and the turn is
\* the human's unless that move ended the game; a pending bot timer
\* eventually fires.
C17_BotReplies ==
  /\ [][HumanMoved
        => /\ BotTimers(timers) = {}
           /\ Cardinality(BotTimers(timers')) = 1
           /\ \A t \in BotTimers(timers') :
                 t.game = last'.game /\ t.sock \in Bots]_vars
  /\ [][last'.op = "botMove"
        => /\ last'.res \in {"next", "win", "draw"}
           /\ last'.game \in DOMAIN games /\ last'.game \in DOMAIN games'
           /\ OCount(games'[last'.game].board) =
                OCount(games[last'.game].board) + 1
           /\ BotTimers(timers') = {}
           /\ last'.res = "next"
                => /\ games'[last'.game].turn \notin Bots
                   /\ \E i \in 1..2 :
                         games'[last'.game].players[i] =
                           games'[last'.game].turn]_vars
  /\ (BotTimers(timers) # {}) ~> (BotTimers(timers) = {})

C17_Witness ==
  /\ BotGame
  /\ last.op = "botMove" /\ last.res = "next"
  /\ moves >= 2
  /\ last.game \in DOMAIN games
  /\ games[last.game].turn \notin Bots
  /\ BotTimers(timers) = {}

\* the strategy as described: a winning column, else a blocking column,
\* else column 3, else the first of 2,4,1,5,0,6 that is not full
OpenColumns(board) == {c \in Columns : ~ColumnIsFull(board, c)}
Completes(board, S) ==
  {c \in OpenColumns(board) : FourInLine(dropDisc(board, c, S).board, S)}
CenterOrder == <<3, 2, 4, 1, 5, 0, 6>>
CenterChoice(board) ==
  LET open == {i \in 1..Len(CenterOrder) : CenterOrder[i] \in OpenColumns(board)}
  IN CenterOrder[CHOOSE i \in open : \A j \in open : i <= j]
FollowsStrategy(board, col) ==
  IF Completes(board, "O") # {} THEN col \in Completes(board, "O")
  ELSE IF Completes(board, "X") # {} THEN col \in Completes(board, "X")
  ELSE col = CenterChoice(board)

\* C18: on every board on which the bot is to move, botLogic returns a
\* column that completes four O if there is one, else a column that
\* completes four X if there is one, else column 3 if it is not full, else
\* the first column of 2,4,1,5,0,6 that is not full.
C18_BotStrategy ==
  \A g \in DOMAIN games :
    (games[g].turn \in Bots /\ ~Terminal(g) /\ OpenColumns(games[g].board) # {})
    => FollowsStrategy(games[g].board, botLogic(games[g].board))

\* C19: on every board of the registry with a column that is not full,
\* botLogic returns one of the columns 0..6 that is not full.
C19_BotColumnNotFull ==
  \A g \in DOMAIN games :
    OpenColumns(games[g].board) # {}
    => botLogic(games[g].board) \in OpenColumns(games[g].board)

C19_Witness ==
  \E g \in DOMAIN games :
    /\ last.op = "makeMove" /\ last.res = "next" /\ last.game = g
    /\ ColumnIsFull(games[g].board, 0)
    /\ Cardinality(OpenColumns(games[g].board)) = 1
    /\ botLogic(games[g].board) \in OpenColumns(games[g].board)

\* the INSERTs handed to the pool for a game
RowsOf(g, queries) == {i \in 1..Len(queries) : queries[i].id = g}

\* C20: when a disconnect timer ends a game that was not won or drawn, an
\* INSERT for the game with the other player as winner has been handed to
\* the pool; no game has more than one INSERT.
C20_EveryEndSavedOnce ==
  /\ [][(/\ last'.op = "disconnectTimeout"
         /\ last'.res = "evicted"
         /\ ~Terminal(last'.game))
        => \E i \in RowsOf(last'.game, dbQueries') :
              /\ \E t \in timers \ timers' :
                    dbQueries'[i].winner = sock[t.other].username
              /\ dbQueries'[i].is_draw = FALSE]_vars
  /\ [](\A g \in GameIds : Cardinality(RowsOf(g, dbQueries)) <= 1)

(***************************************************************************)
(* The collaborators of a terminal move.  A message handed to the Kafka    *)
(* producer or an INSERT handed to the pool completes, fails, or stays     *)
(* pending for ever: only the timers are certain to fire.                  *)
(***************************************************************************)
FairSpecTimers ==
  /\ SpecPlay
  /\ WF_vars(\E t \in timers : DisconnectTimeout(t))

\* C21: a game whose win or draw was broadcast is eventually out of the
\* registry, whether or not the writes handed to Kafka and to the
\* database ever complete.
C21_EvictedWhateverTheWrites ==
  \A g \in GameIds :
    (g \in WonGames \cup DrawnGames) ~> (g \notin DOMAIN games)

\* the games whose gameOver (win, draw or forfeiture) was broadcast
Ended == {gameOvers[i].game : i \in 1..Len(gameOvers)}

\* C22: a game whose gameOver was broadcast has no pending 30 s timer and
\* no pending bot timer, and no timer of such a game fires.
C22_NoTimerAfterEnd ==
  /\ [](\A t \in timers : t.game \notin Ended)
  /\ [][\A t \in timers \ timers' : t.game \notin Ended]_vars

\* C23: in a bot game with a 30 s timer of the human pending, no bot timer
\* is pending, no disc is placed and no moveMade is sent.
C23_NoBotMoveInGrace ==
  /\ [](\A g \in DOMAIN games :
          (BotGame /\ InGrace(g)) => \A t \in BotTimers(timers) : t.game # g)
  /\ [][\A g \in DOMAIN games :
          (BotGame /\ InGrace(g))
          => /\ g \in DOMAIN games' => games'[g].board = games[g].board
             /\ EventsOf(emits', "moveMade") = {}]_vars

(***************************************************************************)
(* Specification of the seats: as the specification of reconnection, and   *)
(* a connection that plays may also send a rejoin request for its own      *)
(* username.                                                               *)
(***************************************************************************)
NextSeats ==
  \/ Connect
  \/ \E s \in DOMAIN sock, u \in Usernames :
        sock[s].username \in {Undefined, u} /\ Rejoin(s, u)
  \/ \E s \in DOMAIN sock : Disconnect(s)
  \/ \E t \in timers : DisconnectTimeout(t)
  \/ \E s \in DOMAIN sock, c \in MoveColumns :
        WithinBudget(MaxRejoinMoves, s, 1, c) /\ MakeMove(s, 1, c)
  \/ \E i \in 1..Len(awaiting) : ResumeAfterSave(i)

SpecSeats == InitRejoin /\ [][NextSeats]_vars

\* startNewGame: the first player gets "X", the second "O"
SeatSymbol(i) == IF i = 1 THEN "X" ELSE "O"

\* C24: in every game of the registry the connection ids mapped to symbols
\* are those of its two players, the first player's mapped to "X" and the
\* second's to "O"; every moveMade is for a request of one of the two
\* players and carries the symbol of that player's seat.
C24_SeatsKeepSymbols ==
  /\ [](\A g \in DOMAIN games :
          /\ DOMAIN games[g].symbols =
               {games[g].players[1], games[g].players[2]}
          /\ \A i \in 1..2 :
               Get(games[g].symbols, games[g].players[i]) = SeatSymbol(i))
  /\ [][\A e \in EventsOf(emits', "moveMade") :
          /\ e.to.room \in DOMAIN games
          /\ \E i \in 1..2 :
                /\ games[e.to.room].players[i] = last'.sock
                /\ e.data.symbol = SeatSymbol(i)]_vars

(***************************************************************************)
(* Specification of the move requests: as the specification of the boards, *)
(* and the column of a request is any of 0..COLS-1 or the first index      *)
(* past the last column.                                                   *)
(***************************************************************************)
RequestColumns == Columns \cup {COLS}

NextRequests ==
  \/ \E s \in DOMAIN sock, c \in RequestColumns :
        WithinBudget(MaxPlies, s, 1, c) /\ MakeMove(s, 1, c)
  \/ \E i \in 1..Len(awaiting) : ResumeAfterSave(i)

SpecRequests == InitBoard /\ [][NextRequests]_vars

\* a board of ROWS rows of COLS cells, each null, "X" or "O"
WellFormed(board) ==
  /\ DOMAIN board = Rows
  /\ \A r \in Rows :
        /\ DOMAIN board[r] = Columns
        /\ \A c \in Columns : board[r][c] \in {Null} \cup Discs

\* C25: the board of every game of the registry and every board sent in an
\* event is ROWS by COLS with cells null, "X" or "O", whatever the column
\* of a move request is.
C25_BoardShape ==
  /\ \A g \in DOMAIN games : WellFormed(games[g].board)
  /\ \A i \in 1..Len(emits) :
        "board" \in DOMAIN emits[i].data => WellFormed(emits[i].data.board)

(***************************************************************************)
(* Specification of matchmaking: connections are opened, send joinGame     *)
(* (also when they wait or play already), and leave; the 10 s and 30 s     *)
(* timers fire.  No move is made.                                          *)
(***************************************************************************)
\* games started in a run of the matchmaking specification
MaxJoinGames == 2

NextJoin ==
  \/ Connect
  \/ \E s \in DOMAIN sock, u \in Usernames :
        nextGame <= MaxJoinGames /\ JoinGame(s, u)
  \/ \E t \in timers : nextGame <= MaxJoinGames /\ JoinTimeout(t)
  \/ \E s \in DOMAIN sock : Disconnect(s)
  \/ \E t \in timers : DisconnectTimeout(t)

SpecJoin == Init /\ [][NextJoin]_vars

\* a timer that was set fires
FairSpecJoin ==
  /\ SpecJoin
  /\ WF_vars(\E t \in timers : nextGame <= MaxJoinGames /\ JoinTimeout(t))
  /\ WF_vars(\E t \in timers : DisconnectTimeout(t))

\* the 10 s timers of a socket that were set after timer t and are pending
NewerJoinTimers(t, tm) ==
  {n \in tm : n.kind = "join" /\ n.sock = t.sock /\ n.col > t.col}

\* the games of the registry that socket s plays against a human
PairedWithHuman(s) ==
  {g \in DOMAIN games :
     /\ ~games[g].isBotGame
     /\ \E i \in 1..2 : games[g].players[i] = s}

\* C26: a bot game is started by a 10 s timer only for a socket that is in
\* the queue, has no 10 s timer of a later joinGame pending (it waited
\* 10 s since it last joined) and plays no game against a human; a socket
\* that waits in the queue and stays connected is eventually out of the
\* queue, in a game.
C26_Matchmaking ==
  /\ [][(last'.op = "joinTimeout" /\ last'.res = "botGame"
         /\ nextGame' = nextGame + 1)
        => \A t \in timers \ timers' :
              /\ InSeq(t.sock, waitingPlayers)
              /\ NewerJoinTimers(t, timers) = {}
              /\ PairedWithHuman(t.sock) = {}]_vars
  /\ \A s \in HumanIds :
        (s \in DOMAIN sock /\ InSeq(s, waitingPlayers))
        ~> (\/ s \in DOMAIN sock /\ s \notin Connected
            \/ \E g \in DOMAIN games : \E i \in 1..2 : games[g].players[i] = s
            \/ nextGame > MaxJoinGames)

\* C27: a move that fills the board with no line of four sends a gameOver
\* with winner null, and the message it hands to Kafka names no winner;
\* every INSERT of a drawn game has a null winner.
C27_DrawNamesNoWinner ==
  /\ [][(last'.op \in MoveOps /\ last'.res = "draw")
        => /\ \A e \in EventsOf(emits', "gameOver") : e.data.winner = Null
           /\ \A i \in (Len(kafkaSent) + 1)..Len(kafkaSent') :
                 kafkaSent'[i].winner = Null]_vars
  /\ [](\A i \in 1..Len(dbQueries) :
          dbQueries[i].is_draw => dbQueries[i].winner = Null)

\* the pending 30 s timers of game g
ForfeitTimers(g) == {t \in timers : t.kind = "disconnect" /\ t.game = g}

\* C28: in every game of the registry no player has two 30 s timers
\* pending, and every pending 30 s timer of the game is the value of an
\* entry of game.disconnectTimers.
C28_TimersReachable ==
  \A g \in DOMAIN games :
    /\ \A i \in 1..2 :
          Cardinality({t \in ForfeitTimers(g) :
                         t.sock = games[g].players[i]}) <= 1
    /\ \A t \in ForfeitTimers(g) :
          \E u \in DOMAIN games[g].disconnectTimers :
             games[g].disconnectTimers[u] = TimerId(t.game, t.sock)

(***************************************************************************)
(* Specification of the leaderboard: results are inserted into the table,  *)
(* time passes, and GET /leaderboard is requested.                         *)
(***************************************************************************)
\* rows of the table in a run
MaxRows == 6
\* the clock advances in steps of half the cache's lifetime
TickMs == 30 * 1000
MaxTicks == 2

\* the names are interchangeable: the k-th player to win a first game is
\* taken to be the k-th name
NextWinner(w) ==
  \E k \in 1..Len(WinnerNames) :
     /\ w = WinnerNames[k]
     /\ \A i \in 1..(k - 1) : gamesTable[WinnerNames[i]] > 0

\* the INSERT of saveGameToDB completes: a row with winner w (null: a draw)
InsertGame(w) ==
  /\ RowCount(gamesTable, DOMAIN gamesTable) < MaxRows
  /\ w = Null \/ NextWinner(w)
  /\ gamesTable' = [gamesTable EXCEPT ![w] = @ + 1]
  /\ UNCHANGED <<last, leaderboardCache, lastCacheTime, now, response>>
  /\ UNCHANGED gameVars

Tick ==
  /\ now < MaxTicks * TickMs
  /\ now' = now + TickMs
  /\ UNCHANGED <<last, gamesTable, leaderboardCache, lastCacheTime, response>>
  /\ UNCHANGED gameVars

\* router.get("/"): a fresh cache is returned as it is; otherwise the table
\* is queried, and the result is cached and returned, or the query throws
GetLeaderboard ==
  /\ IF "rows" \in DOMAIN leaderboardCache /\ now - lastCacheTime < CACHE_TTL
     THEN /\ response' = [status |-> 200, body |-> leaderboardCache.rows,
                          xCache |-> "HIT"]
          /\ last' = Last("getLeaderboard", NoSocket, NoGame, "HIT")
          /\ UNCHANGED <<leaderboardCache, lastCacheTime>>
     ELSE \/ \E rows \in QueryResults(gamesTable) :
               /\ leaderboardCache' = Cached(rows)
               /\ lastCacheTime' = now
               /\ response' = [status |-> 200, body |-> rows,
                               xCache |-> "MISS"]
               /\ last' = Last("getLeaderboard", NoSocket, NoGame, "MISS")
          \/ /\ response' = [status |-> 500]
             /\ last' = Last("getLeaderboard", NoSocket, NoGame, "error")
             /\ UNCHANGED <<leaderboardCache, lastCacheTime>>
  /\ UNCHANGED <<gamesTable, now>>
  /\ UNCHANGED gameVars

InitLeaderboard == Init /\ ~kafkaConnected

NextLeaderboard ==
  \/ \E w \in Winners \cup {Null} : InsertGame(w)
  \/ Tick
  \/ GetLeaderboard

SpecLeaderboard == InitLeaderboard /\ [][NextLeaderboard]_vars

\* C29: a successful response of GET /leaderboard has at most 5 rows, of
\* players with at least one win, in descending order of wins.
C29_TopFive ==
  response.status = 200
  => /\ Len(response.body) <= 5
     /\ \A i \in 1..Len(response.body) :
           /\ response.body[i].winner \in Winners
           /\ response.body[i].wins >= 1
           /\ gamesTable[response.body[i].winner] >= 1
     /\ \A i \in 1..Len(response.body) : \A j \in 1..Len(response.body) :
           i < j => response.body[i].wins >= response.body[j].wins

\* C30: a successful response of GET /leaderboard has, for every player
\* with a row as winner in the table, that player's row with the number of
\* the player's wins in the table.
C30_ResponseIsCurrent ==
  [][(GetLeaderboard /\ response'.status = 200)
     => \A w \in Groups(gamesTable) :
           \E i \in 1..Len(response'.body) :
              /\ response'.body[i].winner = w
              /\ response'.body[i].wins = gamesTable[w]]_vars

XCount(board) == Cardinality(XCells(board))

\* C31: in every game of the registry the board holds as many X as O or
\* one X more; a move of the first player is accepted only on a board with
\* as many X as O and a move of the second player only on a board with one
\* X more, so no player has two accepted moves in a row.
C31_MovesAlternate ==
  /\ [](\A g \in DOMAIN games :
          XCount(games[g].board) - OCount(games[g].board) \in {0, 1})
  /\ [][\A g \in DOMAIN games :
          (/\ last'.op \in MoveOps /\ last'.game = g
           /\ last'.res \in {"next", "win", "draw"}
           /\ accepted'[g] = accepted[g] + 1)
          => \E i \in 1..2 :
                /\ games[g].players[i] = last'.sock
                /\ XCount(games[g].board) - OCount(games[g].board) = i - 1]_vars

\* the gameOver broadcasts of game g so far
GameOversOf(g) == {i \in 1..Len(gameOvers) : gameOvers[i].game = g}

\* C32: no game has had more than one gameOver broadcast.
C32_OneGameOver == \A g \in Ended : Cardinality(GameOversOf(g)) <= 1

\* the games that leave the registry in a step
Removed == DOMAIN games \ DOMAIN games'

LastCellOpening ==
  [bot |-> FALSE,
   cols |-> <<5, 3, 2, 3, 1, 5, 3, 1, 0, 1, 4, 1, 2, 5, 0, 5, 6, 6, 2, 0, 6,
              0, 4, 2, 3, 0, 3, 4, 2, 3, 2, 6, 0, 4, 1, 1, 5, 4, 6, 5, 6>>]

InitEnd ==
  \/ InitAfter(LastCellOpening)
  \/ InitAfter([bot |-> FALSE, cols |-> SubSeq(DrawGame, 1, Len(DrawGame) - 2)])

NextEnd ==
  \/ \E s \in DOMAIN sock, g \in GameIds, c \in Columns :
        WithinBudget(MaxMoves, s, g, c) /\ MakeMove(s, g, c)
  \/ \E i \in 1..Len(awaiting) : ResumeAfterKafka(i)
  \/ \E i \in 1..Len(awaiting) : ResumeAfterSave(i)
  \/ \E s \in DOMAIN sock : Disconnect(s)
  \/ \E t \in timers : DisconnectTimeout(t)

SpecEnd == InitEnd /\ [][NextEnd]_vars

\* C34: a move that fills the board and gives the mover four in a line is
\* followed in the same handler run by one gameOver, with the mover's
\* username as winner and no draw flag; every INSERT of a game that was
\* won has is_draw false and the winner's name.
C34_WinBeforeDraw ==
  /\ [][\A g \in DOMAIN games : \A S \in Discs :
          (/\ Placed(g, S)
           /\ FourInLine(games'[g].board, S)
           /\ Occupied(games'[g].board) = Rows \X Columns)
          => /\ Cardinality(EventsOf(emits', "gameOver")) = 1
             /\ \A e \in EventsOf(emits', "gameOver") :
                   /\ e.data.winner = usernameOf(last'.sock)
                   /\ "draw" \notin DOMAIN e.data]_vars
  /\ [](\A i \in 1..Len(dbQueries) :
          (\A j \in GameOversOf(dbQueries[i].id) : ~gameOvers[j].draw)
          => /\ dbQueries[i].is_draw = FALSE
             /\ \E j \in GameOversOf(dbQueries[i].id) :
                   dbQueries[i].winner = gameOvers[j].winner)

C34_Witness ==
  /\ last.op = "makeMove" /\ last.res = "win"
  /\ last.game \in DOMAIN games
  /\ Occupied(games[last.game].board) = Rows \X Columns
  /\ FourInLine(games[last.game].board, "O")
  /\ \E i \in 1..Len(dbQueries) :
        /\ dbQueries[i].id = last.game
        /\ dbQueries[i].is_draw = FALSE
        /\ dbQueries[i].winner = usernameOf(last.sock)

\* C35: on every board of the registry, when checkWinner reports a win for
\* a symbol its positions are four different cells of the board that hold
\* the symbol, each one step further from the first along one of the
\* directions right, down, down-right, down-left.
C35_WinningPositionsAreALine ==
  \A g \in DOMAIN games : \A S \in Discs :
    LET w == checkWinner(games[g].board, S)
        pos == w.winningPositions
    IN w.isWinner
       => /\ Len(pos) = 4
          /\ Cardinality(CellsOf(pos)) = 4
          /\ \A k \in 1..4 :
                /\ pos[k] \in Rows \X Columns
                /\ games[g].board[pos[k][1]][pos[k][2]] = S
          /\ \E d \in Lines :
                \A k \in 1..4 :
                   pos[k] = <<pos[1][1] + (k - 1) * d[1],
                              pos[1][2] + (k - 1) * d[2]>>

\* five X on top of each other in column 0
C35_Witness ==
  \E g \in DOMAIN games :
    /\ \A r \in 1..5 : games[g].board[r][0] = "X"
    /\ checkWinner(games[g].board, "X").isWinner
    /\ Len(checkWinner(games[g].board, "X").winningPositions) = 4

(***************************************************************************)
(* Specification of a bot game with rejoin requests: as the specification  *)
(* of a game against the bot, and the human's connection sends rejoin      *)
(* requests for its own username and for the bot's.                        *)
(***************************************************************************)
BotRejoinNames == {"alice", "BotMaster"}

NextBotRejoin ==
  \/ \E s \in DOMAIN sock \ Bots, c \in Columns :
        WithinBudget(MaxMoves, s, 1, c) /\ MakeMove(s, 1, c)
  \/ \E t \in timers : t.kind = "bot" /\ BotMove(t)
  \/ \E i \in 1..Len(awaiting) : ResumeAfterKafka(i)
  \/ \E i \in 1..Len(awaiting) : ResumeAfterSave(i)
  \/ \E s \in DOMAIN sock : Disconnect(s)
  \/ \E t \in timers :
        {b \in timers : b.kind = "bot"} = {} /\ DisconnectTimeout(t)
  \/ \E s \in DOMAIN sock \ Bots, u \in BotRejoinNames : Rejoin(s, u)

SpecBotRejoin == InitBot /\ [][NextBotRejoin]_vars

\* C36: when the timer of a bot move fires for a game of the registry, the
\* column it carries is the one botLogic gives for the board as it is then,
\* that column is not full, the move is not ignored, and an O lies in the
\* column's lowest free cell afterwards.
C36_BotMovePlacesDisc ==
  [][\A t \in BotTimers(timers) \ BotTimers(timers') :
        (last'.op = "botMove" /\ t.game \in DOMAIN games)
        => LET board == games[t.game].board
               row == DropRow(board, t.col, ROWS - 1)
           IN /\ t.col = botLogic(board)
              /\ t.col \in Columns
              /\ ~ColumnIsFull(board, t.col)
              /\ last'.res \in {"next", "win", "draw"}
              /\ t.game \in DOMAIN games'
              /\ games'[t.game].board[row][t.col] = "O"
              /\ EventsOf(emits', "moveMade") # {}]_vars

\* the games of the registry that have socket s among their players
GamesOf(s) ==
  {g \in DOMAIN games : \E i \in 1..2 : games[g].players[i] = s}

\* C37: a connection is a player of at most one game of the registry, and a
\* connection that waits in the queue is a player of none.
C37_OneGamePerConnection ==
  \A s \in DOMAIN sock :
     /\ Cardinality(GamesOf(s)) <= 1
     /\ InSeq(s, waitingPlayers) => GamesOf(s) = {}

\* the connections that sent joinGame, left and are in no game
LeftWhileWaiting ==
  {s \in DOMAIN sock \ (Connected \cup Bots) :
     sock[s].username # Undefined /\ GamesOf(s) = {}}

\* C38: the queue holds no connection twice, at most one connection, and
\* only connected ones; a joinGame that pairs makes the game of the
\* connection that waited (first player, X) and the one that joined (O);
\* every game is started with connected humans only.
C38_QueueDiscipline ==
  /\ [](/\ Len(waitingPlayers) <= 1
        /\ \A i, j \in 1..Len(waitingPlayers) :
              waitingPlayers[i] = waitingPlayers[j] => i = j
        /\ \A i \in 1..Len(waitingPlayers) : waitingPlayers[i] \in Connected)
  /\ [][(last'.op = "joinGame" /\ last'.res = "paired")
        => /\ Len(waitingPlayers) = 1
           /\ games'[nextGame].players = <<waitingPlayers[1], last'.sock>>
           /\ Get(games'[nextGame].symbols, waitingPlayers[1]) = "X"
           /\ Get(games'[nextGame].symbols, last'.sock) = "O"
           /\ waitingPlayers' = <<>>]_vars
  /\ [][nextGame' = nextGame + 1
        => \A i \in 1..2 :
              games'[nextGame].players[i] \in Connected \cup Bots']_vars

\* a connection left the queue by disconnecting, and later two others were
\* paired
C38_Witness ==
  /\ last.op = "joinGame" /\ last.res = "paired"
  /\ LeftWhileWaiting # {}

(***************************************************************************)
(* utils/socketRateLimiter.js: the limits, the onAny listener that         *)
(* socketEventLimiter registers on every connection, and the setInterval   *)
(* callback that forgets idle clients.                                     *)
(***************************************************************************)
SOCKET_LIMIT_CONFIG ==
  [connections |-> [windowMs |-> 60 * 1000, max |-> 10],
   events |->
     [windowMs |-> 10 * 1000,
      max |-> 50,
      byType |-> [make_move |-> [windowMs |-> 5 * 1000, max |-> 10],
                  send_message |-> [windowMs |-> 5 * 1000, max |-> 5],
                  default |-> [windowMs |-> 10 * 1000, max |-> 50]]]]

\* SOCKET_LIMIT_CONFIG.events.byType[event] || ...byType.default
eventTypeConfig(event) ==
  LET byType == SOCKET_LIMIT_CONFIG.events.byType
  IN IF event \in DOMAIN byType THEN byType[event] ELSE byType.default

\* the tracker socketEventLimiter makes for a socket connected at time t
NewTracker(t) ==
  [events |-> [total |-> 0, byType |-> EmptyMap],
   timestamp |-> t,
   isLimited |-> FALSE,
   typeTimestamps |-> EmptyMap]

\* event.startsWith('connect') || event.startsWith('disconnect'), for the
\* event names that occur
InternalEvents == {"connect", "connect_error", "disconnect", "disconnecting"}

\* the listener given to socket.onAny, run on tracker eventData: the
\* tracker it leaves, whether it emits rate_limit_exceeded, and what it
\* returns
onAny(eventData, event, currentTime) ==
  LET cfg == eventTypeConfig(event)
      unseen == \/ event \notin DOMAIN eventData.events.byType
                \/ eventData.events.byType[event] = 0
      d == IF unseen
           THEN [eventData EXCEPT
                   !.events.byType = Put(@, event, 0),
                   !.typeTimestamps = Put(@, event, currentTime)]
           ELSE eventData
      quiet(data) == [data |-> data, emitted |-> FALSE,
                      returned |-> Undefined]
  IN IF event \in InternalEvents THEN quiet(eventData)
     ELSE IF currentTime - d.typeTimestamps[event] > cfg.windowMs
     THEN quiet([d EXCEPT !.events.byType[event] = 1,
                          !.typeTimestamps[event] = currentTime])
     ELSE IF currentTime - d.timestamp > SOCKET_LIMIT_CONFIG.events.windowMs
     THEN quiet([d EXCEPT !.events.total = 1,
                          !.timestamp = currentTime,
                          !.isLimited = FALSE])
     ELSE IF d.events.byType[event] >= cfg.max
     THEN [data |-> [d EXCEPT !.isLimited = TRUE],
           emitted |-> ~d.isLimited,
           returned |-> FALSE]
     ELSE quiet([d EXCEPT !.events.total = @ + 1,
                          !.events.byType[event] = @ + 1])

RateLimitExceeded(s, event) ==
  Event("rate_limit_exceeded", ToSocket(s),
        [code |-> 429, eventType |-> event,
         limit |-> eventTypeConfig(event).max])

\* a makeMove packet from socket s: socket.io calls the listeners of onAny
\* and then the handlers of the event, whatever the listeners return
MakeMoveEvent(s, g, column) ==
  /\ s \in Connected
  /\ IF s \in DOMAIN eventLimiter
     THEN LET r == onAny(eventLimiter[s], "makeMove", now) IN
          /\ eventLimiter' = [eventLimiter EXCEPT ![s] = r.data]
          /\ limiterEmits' = IF r.emitted
                             THEN << RateLimitExceeded(s, "makeMove") >>
                             ELSE <<>>
     ELSE \* the socket is not tracked
          /\ limiterEmits' = <<>>
          /\ UNCHANGED eventLimiter
  /\ handleMove(s, g, column, timers)
  /\ last' = Last("makeMove", s, g, MoveOutcome(s, g, column))
  /\ UNCHANGED <<kafkaConnected, sock, waitingPlayers, detached, nextGame>>
  /\ UNCHANGED <<gamesTable, leaderboardCache, lastCacheTime, now, response,
                 connectionLimiter, handshake, admitted>>

\* the clock advances
Elapse(ms) ==
  /\ now' = now + ms
  /\ UNCHANGED <<last, gamesTable, leaderboardCache, lastCacheTime, response>>
  /\ UNCHANGED gameVars

\* the setInterval callback (every minute): clients and sockets whose
\* timestamp is older than two windows are forgotten
Cleanup ==
  /\ connectionLimiter' =
       [ip \in {i \in DOMAIN connectionLimiter :
                  ~(now - connectionLimiter[i].timestamp
                      > SOCKET_LIMIT_CONFIG.connections.windowMs * 2)}
          |-> connectionLimiter[ip]]
  /\ eventLimiter' =
       [s \in {i \in DOMAIN eventLimiter :
                 ~(now - eventLimiter[i].timestamp
                     > SOCKET_LIMIT_CONFIG.events.windowMs * 2)}
          |-> eventLimiter[s]]
  /\ last' = Last("cleanup", NoSocket, NoGame, "none")
  /\ UNCHANGED <<kafkaConnected, sock, waitingPlayers, games, detached,
                 nextGame, timers, awaiting, dbQueries, kafkaSent, emits,
                 gameOvers, accepted, moves>>
  /\ UNCHANGED <<gamesTable, leaderboardCache, lastCacheTime, now, response,
                 limiterEmits, handshake, admitted>>

(***************************************************************************)
(* Specification of the event limiter: alice and bob are in a game that    *)
(* just started, both connected at time 0 and tracked; they send makeMove  *)
(* events for one column while the clock advances.                         *)
(***************************************************************************)
\* makeMove events a socket sends in a window of the limiter
MaxEvents == 11
\* the clock advances by half of the window of make_move, up to MaxSteps
\* times
StepMs == SOCKET_LIMIT_CONFIG.events.byType.make_move.windowMs \div 2
MaxSteps == 2
EventColumns == {0}

\* both sockets sent joinGame when they connected
InitEvents ==
  /\ InitGame(Openings[1])
  /\ InitRoute
  /\ connectionLimiter = EmptyMap
  /\ eventLimiter = [s \in DOMAIN sock |->
                       onAny(NewTracker(0), "joinGame", 0).data]
  /\ limiterEmits = <<>>
  /\ handshake = NoHandshake
  /\ admitted = EmptyMap

\* the events of type `event` the limiter has counted for socket s
Counted(s, event) ==
  IF s \in DOMAIN eventLimiter
     /\ event \in DOMAIN eventLimiter[s].events.byType
  THEN eventLimiter[s].events.byType[event]
  ELSE 0

NextEvents ==
  \/ \E s \in DOMAIN sock, c \in EventColumns :
        Counted(s, "makeMove") < MaxEvents /\ MakeMoveEvent(s, 1, c)
  \/ now < MaxSteps * StepMs /\ Elapse(StepMs)

SpecEvents == InitEvents /\ [][NextEvents]_vars

\* C39: a makeMove event of a socket that the limiter has counted 10 makeMove
\* events for, all of them within the last 5 seconds, changes no game and
\* the socket is sent rate_limit_exceeded (or was sent it already).
C39_MovesAreLimited ==
  [][\A s \in DOMAIN sock :
       (/\ last'.op = "makeMove" /\ last'.sock = s
        /\ s \in DOMAIN eventLimiter
        /\ Counted(s, "makeMove") >= 10
        /\ now - eventLimiter[s].typeTimestamps["makeMove"] <= 5 * 1000)
       => /\ games' = games
          /\ \/ EventsOf(limiterEmits', "rate_limit_exceeded") # {}
             \/ eventLimiter[s].isLimited]_vars

(***************************************************************************)
(* socketConnectionLimiter, the middleware given to io.use.                *)
(***************************************************************************)
\* clientData.connections >= SOCKET_LIMIT_CONFIG.connections.max
\* mutant of LimitExceeded: one more connection is let in
LimitExceededLate(clientData) ==
  clientData.connections > SOCKET_LIMIT_CONFIG.connections.max

LimitExceeded(clientData) ==
  clientData.connections >= SOCKET_LIMIT_CONFIG.connections.max

RateLimited ==
  [code |-> 429, error |-> "RATE_LIMITED",
   retryAfter |-> SOCKET_LIMIT_CONFIG.connections.windowMs \div 1000,
   source |-> "socket-connection"]

\* the map the middleware leaves and the argument it calls next with
socketConnectionLimiter(limiter, clientIp, currentTime) ==
  IF clientIp \notin DOMAIN limiter
  THEN [limiter |-> Put(limiter, clientIp,
                        [connections |-> 1, timestamp |-> currentTime]),
        err |-> NoError]
  ELSE LET clientData == limiter[clientIp] IN
       IF currentTime - clientData.timestamp
            > SOCKET_LIMIT_CONFIG.connections.windowMs
       THEN [limiter |-> Put(limiter, clientIp,
                             [connections |-> 1, timestamp |-> currentTime]),
             err |-> NoError]
       ELSE IF LimitExceeded(clientData)
       THEN [limiter |-> limiter, err |-> RateLimited]
       ELSE [limiter |-> [limiter EXCEPT ![clientIp].connections = @ + 1],
             err |-> NoError]

\* the window of the client as the connections admitted so far make it: it
\* opens with the first connection, and with the first connection after
\* the window before it has passed
WindowAfter(history, clientIp, currentTime) ==
  IF clientIp \in DOMAIN history
     /\ currentTime - history[clientIp].opened
          <= SOCKET_LIMIT_CONFIG.connections.windowMs
  THEN [history EXCEPT ![clientIp].count = @ + 1]
  ELSE Put(history, clientIp, [opened |-> currentTime, count |-> 1])

\* a connection attempt of a client with address clientIp
Handshake(clientIp) ==
  LET r == socketConnectionLimiter(connectionLimiter, clientIp, now) IN
  /\ connectionLimiter' = r.limiter
  /\ handshake' = [clientIp |-> clientIp, err |-> r.err]
  /\ admitted' = IF r.err = NoError
                 THEN WindowAfter(admitted, clientIp, now)
                 ELSE admitted
  /\ last' = Last("handshake", NoSocket, NoGame,
                  IF r.err = NoError THEN "admitted" ELSE "rejected")
  /\ UNCHANGED <<kafkaConnected, sock, waitingPlayers, games, detached,
                 nextGame, timers, awaiting, dbQueries, kafkaSent, emits,
                 gameOvers, accepted, moves>>
  /\ UNCHANGED <<gamesTable, leaderboardCache, lastCacheTime, now, response,
                 eventLimiter, limiterEmits>>

(***************************************************************************)
(* Specification of the connection limiter: two clients attempt            *)
(* connections while the clock advances by half a window at a time; the    *)
(* connections admitted are not followed further.                          *)
(***************************************************************************)
ClientIps == {"10.0.0.1", "10.0.0.2"}
HalfWindowMs == SOCKET_LIMIT_CONFIG.connections.windowMs \div 2
\* half windows that pass in a run
MaxHalfWindows == 5

InitConnections == Init /\ ~kafkaConnected

NextConnections ==
  \/ \E ip \in ClientIps : Handshake(ip)
  \/ now < MaxHalfWindows * HalfWindowMs /\ Elapse(HalfWindowMs)
  \/ Cleanup

SpecConnections == InitConnections /\ [][NextConnections]_vars

\* the window of client ip is open
InWindow(ip) ==
  /\ ip \in DOMAIN admitted
  /\ now - admitted[ip].opened <= 60 * 1000

\* C40: no client has more than 10 connections admitted in a window; an
\* attempt is rejected exactly when the client's window is open with 10
\* connections admitted in it, the rejection carries code 429 and leaves the
\* limiter's counters as they were.
C40_ConnectionWindow ==
  /\ [](\A ip \in DOMAIN admitted : admitted[ip].count <= 10)
  /\ [][\A ip \in ClientIps :
          Handshake(ip)
          => IF InWindow(ip) /\ admitted[ip].count = 10
             THEN /\ last'.res = "rejected"
                  /\ handshake'.err.code = 429
                  /\ connectionLimiter' = connectionLimiter
                  /\ admitted' = admitted
             ELSE /\ last'.res = "admitted"
                  /\ handshake'.err = NoError
                  /\ admitted'[ip].count =
                       IF InWindow(ip) THEN admitted[ip].count + 1 ELSE 1]_vars

\* an attempt was rejected in a window that is not the client's first
C40_Witness ==
  /\ last.op = "handshake" /\ last.res = "rejected"
  /\ handshake.err.code = 429
  /\ admitted[handshake.clientIp].count = 10
  /\ admitted[handshake.clientIp].opened > 0

=============================================================================
